---- MODULE Spec2Model ----
(***************************************************************************)
(* A model of eca1d (src/src/lib.rs): the rule table, the automaton        *)
(* (Ca::new, Ca::step, Ca::run) and the terminal renderers                  *)
(* (TermImage::draw_unicode, draw_braille, draw_ascii).                     *)
(*                                                                         *)
(* Vectors are TLA+ sequences; the code's 0-based index i is position i+1. *)
(* A String is the sequence of its Unicode code points.  A panic (index    *)
(* out of bounds, arithmetic overflow in a debug build, unwrap of None)    *)
(* ends the call: the operators return status "panic" and no value.        *)
(***************************************************************************)
EXTENDS Integers, Sequences, FiniteSets

VARIABLES build, seed, rule, rules, state, status, old, steps, arg, res, rows,
          query, data, fg, bg, out, op

vars == <<build, seed, rule, rules, state, status, old, steps, arg, res, rows,
          query, data, fg, bg, out, op>>

(***************************************************************************)
(* Bounds of the model.                                                    *)
(***************************************************************************)
\* longest seed handed to Ca::new
MaxLen == 5
\* most calls of step made on one automaton in a behaviour
MaxSteps == 3

\* most rows, and most cells in a row, of the ragged matrices handed to TermImage::new
MaxRaggedRows == 2
MaxRaggedCols == 2
\* most rows and columns of the rectangular matrices handed to TermImage::new
MaxRows == 8
MaxCols == 4

\* the two ways the crate is built: overflow checks on (debug) or off (release)
Builds == {"debug", "release"}

\* u8 values of seed elements: dead, alive, and alive with a value above 1
SeedVals == {0, 1, 2}

Rules == 0..255

\* the rules the automaton is run under when whole runs are examined
RunRules == {0, 30, 90, 110, 150, 184, 254, 255}

RECURSIVE SeqsUpTo(_, _)
SeqsUpTo(S, n) ==
    IF n = 0 THEN {<<>>}
    ELSE LET P == SeqsUpTo(S, n - 1)
         IN  P \cup {Append(s, x) : s \in {p \in P : Len(p) = n - 1}, x \in S}

Seeds == SeqsUpTo(SeedVals, MaxLen)

\* the seeds of 0 and 1 alone, for the examination of single steps
BinarySeeds == SeqsUpTo({0, 1}, MaxLen)

(***************************************************************************)
(* usize arithmetic.  `a - b` on usize panics on underflow when overflow   *)
(* checks are on and wraps modulo the word size when they are off.  The    *)
(* wrapped value is only ever used as the end of a range or as an index,   *)
(* where all that matters is that it exceeds every vector length, so the   *)
(* word is modelled 16 bits wide (the model checker's integers cannot hold *)
(* 2^64).                                                                  *)
(***************************************************************************)
UsizeModulus == 65536

USub(a, b, bld) ==
    IF a >= b THEN [ok |-> TRUE, val |-> a - b]
    ELSE IF bld = "debug" THEN [ok |-> FALSE, val |-> 0]
    ELSE [ok |-> TRUE, val |-> (a - b + UsizeModulus) % UsizeModulus]

\* v[i] with the code's 0-based index: in bounds or a panic
InBounds(v, i) == i >= 0 /\ i < Len(v)
At(v, i) == v[i + 1]

(***************************************************************************)
(* Bit                                                                     *)
(***************************************************************************)
BitFrom(num) == IF num # 0 THEN "One" ELSE "Zero"

BitInto(b) == IF b = "One" THEN 1 ELSE 0

BitDisplay(b) == IF b = "One" THEN "1" ELSE "0"

(***************************************************************************)
(* RuleTable: a HashMap from the pattern's text to a Bit.                  *)
(***************************************************************************)
RECURSIVE BinDigits(_)
BinDigits(n) ==
    IF n < 2 THEN <<IF n = 1 THEN "1" ELSE "0">>
    ELSE Append(BinDigits(n \div 2), IF n % 2 = 1 THEN "1" ELSE "0")

RECURSIVE PadLeft(_, _)
PadLeft(s, width) == IF Len(s) >= width THEN s ELSE PadLeft(<<"0">> \o s, width)

\* a mutant of Fmt03b: the pattern written without its zero padding, "{:b}"
Fmt03bUnpadded(i) == BinDigits(i)

\* format!("{:03b}", i)
Fmt03b(i) == PadLeft(BinDigits(i), 3)

\* HashMap::insert: a later insert of the same key replaces the value
MapInsert(table, key, val) ==
    [k \in DOMAIN table \cup {key} |-> IF k = key THEN val ELSE table[k]]

EmptyMap == [k \in {} |-> "Zero"]

RECURSIVE RuleTableFill(_, _, _)
RuleTableFill(table, r, i) ==
    IF i >= 8 THEN table
    ELSE RuleTableFill(MapInsert(table, Fmt03b(i), BitFrom(r % 2)), r \div 2, i + 1)

RuleTableNew(r) == RuleTableFill(EmptyMap, r, 0)

\* RuleTable::get: "Miss" is the unwrap of None, a panic
RuleTableGet(table, b2, b1, b0) ==
    LET key == <<BitDisplay(b2), BitDisplay(b1), BitDisplay(b0)>>
    IN  IF key \in DOMAIN table THEN table[key] ELSE "Miss"

(***************************************************************************)
(* Ca                                                                      *)
(***************************************************************************)
CaNewState(sd) == [i \in 1..Len(sd) |-> BitFrom(sd[i])]

Panic == [status |-> "panic", state |-> <<>>]

\* one new_state.push(self.rules.get(state[a], state[b], state[c]))
StepPush(table, st, acc, a, b, c) ==
    IF acc.status = "panic" THEN acc
    ELSE IF ~(InBounds(st, a) /\ InBounds(st, b) /\ InBounds(st, c)) THEN Panic
    ELSE LET v == RuleTableGet(table, At(st, a), At(st, b), At(st, c))
         IN  IF v = "Miss" THEN Panic
             ELSE [status |-> "ok", state |-> Append(acc.state, v)]

\* a mutant of StepLoop: the left neighbour is read from the cell just computed
RECURSIVE StepLoopInPlace(_, _, _, _, _)
StepLoopInPlace(table, st, acc, i, end) ==
    IF acc.status = "panic" \/ i >= end THEN acc
    ELSE StepLoopInPlace(table, st,
            [status |-> "ok",
             state |-> Append(acc.state,
                              RuleTableGet(table, At(acc.state, i - 1), At(st, i),
                                           At(st, i + 1)))],
            i + 1, end)

\* for i in 1..len - 1 { push(get(state[i - 1], state[i], state[i + 1])) }
RECURSIVE StepLoop(_, _, _, _, _)
StepLoop(table, st, acc, i, end) ==
    IF acc.status = "panic" \/ i >= end THEN acc
    ELSE StepLoop(table, st, StepPush(table, st, acc, i - 1, i, i + 1), i + 1, end)

\* Ca::step: the new generation, or a panic
StepOp(table, st, bld) ==
    LET len   == Len(st)
        lm1   == USub(len, 1, bld)
        first == IF ~lm1.ok THEN Panic
                 ELSE StepPush(table, st, [status |-> "ok", state |-> <<>>],
                               lm1.val, 0, 1)
        mid   == IF first.status = "panic" THEN first
                 ELSE StepLoop(table, st, first, 1, lm1.val)
        lm2   == USub(len, 2, bld)
    IN  IF mid.status = "panic" THEN mid
        ELSE IF ~lm2.ok THEN Panic
        ELSE StepPush(table, st, mid, lm2.val, lm1.val, 0)

\* the row run pushes: each Bit as 1 or 0
RowOf(st) == [i \in 1..Len(st) |-> IF st[i] = "One" THEN 1 ELSE 0]

\* a mutant of RunLoop: the step is taken before the row is captured
RECURSIVE RunLoopStepFirst(_, _, _, _, _, _)
RunLoopStepFirst(table, st, acc, k, n, bld) ==
    IF k >= n THEN [status |-> "ok", state |-> st, res |-> acc]
    ELSE LET s == StepOp(table, st, bld)
         IN  IF s.status = "panic" THEN [status |-> "panic", state |-> st, res |-> <<>>]
             ELSE RunLoopStepFirst(table, s.state, Append(acc, RowOf(s.state)),
                                   k + 1, n, bld)

\* Ca::run: for _ in 0..n { res.push(row); self.step() }
RECURSIVE RunLoop(_, _, _, _, _, _)
RunLoop(table, st, acc, k, n, bld) ==
    IF k >= n THEN [status |-> "ok", state |-> st, res |-> acc]
    ELSE LET s == StepOp(table, st, bld)
         IN  IF s.status = "panic" THEN [status |-> "panic", state |-> st, res |-> <<>>]
             ELSE RunLoop(table, s.state, Append(acc, RowOf(st)), k + 1, n, bld)

\* a mutant of RunOp: no step is taken after the last row
RunOpSkipLastStep(table, st, n, bld) ==
    IF n = 0 THEN RunLoop(table, st, <<>>, 0, 0, bld)
    ELSE LET r == RunLoop(table, st, <<>>, 0, n - 1, bld)
         IN  IF r.status = "panic" THEN r
             ELSE [status |-> "ok", state |-> r.state, res |-> Append(r.res, RowOf(r.state))]

RunOp(table, st, n, bld) == RunLoop(table, st, <<>>, 0, n, bld)

NoQuery == [asked |-> FALSE, b2 |-> "Zero", b1 |-> "Zero", b0 |-> "Zero", got |-> "Zero"]

\* the renderer's variables, idle while the automaton is examined
ImageIdle ==
    /\ data = <<>>
    /\ fg = "None"
    /\ bg = "None"
    /\ out = <<>>

\* the state after Ca::new(sd, r)
CaNew(sd, r) ==
    /\ build \in Builds
    /\ seed = sd
    /\ rule = r
    /\ rules = RuleTableNew(r)
    /\ state = CaNewState(sd)
    /\ status = "ok"
    /\ old = <<>>
    /\ steps = 0
    /\ arg = 0
    /\ res = <<>>
    /\ rows = <<>>
    /\ query = NoQuery
    /\ op = "new"
    /\ ImageIdle

\* rules.get(b2, b1, b0) on the automaton's table
Get(b2, b1, b0) ==
    /\ status = "ok"
    /\ \E v \in {RuleTableGet(rules, b2, b1, b0)} :
           /\ query' = [asked |-> TRUE, b2 |-> b2, b1 |-> b1, b0 |-> b0, got |-> v]
           /\ status' = IF v = "Miss" THEN "panic" ELSE "ok"
    /\ op' = "get"
    /\ UNCHANGED <<build, seed, rule, rules, state, old, steps, arg, res, rows,
                   data, fg, bg, out>>

\* ca.step(), as tests::test_ca_step calls it; old is the generation it read
Step ==
    /\ status = "ok"
    /\ steps < MaxSteps
    /\ \E s \in {StepOp(rules, state, build)} :
           /\ status' = s.status
           /\ state' = IF s.status = "ok" THEN s.state ELSE state
    /\ old' = state
    /\ steps' = steps + 1
    /\ op' = "step"
    /\ UNCHANGED <<build, seed, rule, rules, arg, res, rows, query,
                   data, fg, bg, out>>

\* ca.run(n); res is what the call returns, rows everything run has returned
\* since construction, steps the calls of step made (n of them unless one panics)
Run(n) ==
    /\ status = "ok"
    /\ steps + n <= MaxSteps
    /\ \E r \in {RunOp(rules, state, n, build)} :
           /\ status' = r.status
           /\ state' = r.state
           /\ res' = r.res
           /\ rows' = rows \o r.res
    /\ old' = state
    /\ arg' = n
    /\ steps' = steps + n
    /\ op' = "run"
    /\ UNCHANGED <<build, seed, rule, rules, query, data, fg, bg, out>>

Bits == {"One", "Zero"}

InitTable == \E r \in Rules : CaNew(<<>>, r)
NextTable == \E b2 \in Bits, b1 \in Bits, b0 \in Bits : Get(b2, b1, b0)
SpecTable == InitTable /\ [][NextTable]_vars

InitStep == \E sd \in BinarySeeds, r \in Rules : CaNew(sd, r)
NextStep == Step
SpecStep == InitStep /\ [][NextStep]_vars

InitRun == \E sd \in Seeds, r \in RunRules : CaNew(sd, r)
NextRun == \E n \in 0..MaxSteps : Run(n)
SpecRun == InitRun /\ [][NextRun]_vars

(***************************************************************************)
(* TermColor                                                               *)
(***************************************************************************)
Colors == {"Black", "Red", "Green", "Yellow", "Blue", "Magenta", "Cyan", "White", "Reset"}

\* "\x1b[3Xm", and "\x1b[0m" for Reset
ToFg(c) ==
    CASE c = "Black"   -> <<27, 91, 51, 48, 109>>
      [] c = "Red"     -> <<27, 91, 51, 49, 109>>
      [] c = "Green"   -> <<27, 91, 51, 50, 109>>
      [] c = "Yellow"  -> <<27, 91, 51, 51, 109>>
      [] c = "Blue"    -> <<27, 91, 51, 52, 109>>
      [] c = "Magenta" -> <<27, 91, 51, 53, 109>>
      [] c = "Cyan"    -> <<27, 91, 51, 54, 109>>
      [] c = "White"   -> <<27, 91, 51, 55, 109>>
      [] c = "Reset"   -> <<27, 91, 48, 109>>

\* "\x1b[4Xm", and "\x1b[0m" for Reset
ToBg(c) ==
    CASE c = "Black"   -> <<27, 91, 52, 48, 109>>
      [] c = "Red"     -> <<27, 91, 52, 49, 109>>
      [] c = "Green"   -> <<27, 91, 52, 50, 109>>
      [] c = "Yellow"  -> <<27, 91, 52, 51, 109>>
      [] c = "Blue"    -> <<27, 91, 52, 52, 109>>
      [] c = "Magenta" -> <<27, 91, 52, 53, 109>>
      [] c = "Cyan"    -> <<27, 91, 52, 54, 109>>
      [] c = "White"   -> <<27, 91, 52, 55, 109>>
      [] c = "Reset"   -> <<27, 91, 48, 109>>

\* format!("{}", color): Display writes to_fg
ColorDisplay(c) == ToFg(c)

(***************************************************************************)
(* TermImage                                                               *)
(***************************************************************************)
\* '\n'
NewLine == 10
\* the LOWER HALF BLOCK, U+2584
HalfBlock == 9604
\* the empty braille pattern, U+2800
BrailleBase == 10240

PanicOut == [status |-> "panic", out |-> <<>>]

\* a mutant of UnicodeCell: the top cell drives the foreground escape and the
\* bottom cell the background escape
UnicodeCellSwapped(top, bottom, f, b) ==
    (IF bottom > 0 THEN ToBg(f) ELSE ToBg(b))
        \o (IF top > 0 THEN ToFg(f) ELSE ToFg(b))
        \o <<HalfBlock>> \o ColorDisplay("Reset")

\* format!("{}{}▄{}", top_color, bottom_color, TermColor::Reset)
UnicodeCell(top, bottom, f, b) ==
    (IF top > 0 THEN ToBg(f) ELSE ToBg(b))
        \o (IF bottom > 0 THEN ToFg(f) ELSE ToFg(b))
        \o <<HalfBlock>> \o ColorDisplay("Reset")

\* for (top, bottom) in data[i].iter().zip(data[i + 1].iter())
RECURSIVE UnicodeZip(_, _, _, _, _, _)
UnicodeZip(top, bottom, f, b, acc, k) ==
    IF k >= Len(top) \/ k >= Len(bottom) THEN acc
    ELSE UnicodeZip(top, bottom, f, b,
                    acc \o UnicodeCell(At(top, k), At(bottom, k), f, b), k + 1)

\* for i in (0..end).step_by(2)
RECURSIVE UnicodeRows(_, _, _, _, _, _)
UnicodeRows(d, f, b, acc, i, end) ==
    IF i >= end THEN [status |-> "ok", out |-> acc]
    ELSE IF ~(InBounds(d, i) /\ InBounds(d, i + 1)) THEN PanicOut
    ELSE UnicodeRows(d, f, b,
                     Append(UnicodeZip(At(d, i), At(d, i + 1), f, b, acc, 0), NewLine),
                     i + 2, end)

\* TermImage::draw_unicode
DrawUnicodeOp(d, f, b, bld) ==
    LET end == USub(Len(d), 1, bld)
    IN  IF ~end.ok THEN PanicOut ELSE UnicodeRows(d, f, b, <<>>, 0, end.val)

\* if self.data[r][c] > 0 { w } else { 0 }
Dot(d, r, c, w) == IF At(At(d, r), c) > 0 THEN w ELSE 0

\* the eight cells the block at (i, j) reads
BlockInBounds(d, i, j) ==
    \A r \in i..i + 3 : InBounds(d, r) /\ InBounds(At(d, r), j) /\ InBounds(At(d, r), j + 1)

\* a mutant of BrailleCodepoint: the dots numbered row by row, so that the two
\* cells of row 1 weigh 0x08 and 0x10 and the second cell of row 0 weighs 0x02
BrailleCodepointRowMajor(d, i, j) ==
    BrailleBase
        + Dot(d, i, j, 1)      + Dot(d, i, j + 1, 2)      + Dot(d, i + 2, j, 4)
        + Dot(d, i + 1, j, 8)  + Dot(d, i + 1, j + 1, 16) + Dot(d, i + 2, j + 1, 32)
        + Dot(d, i + 3, j, 64) + Dot(d, i + 3, j + 1, 128)

\* 0x2800 + dot1 + dot2 + dot3 + dot4 + dot5 + dot6 + dot7 + dot8
BrailleCodepoint(d, i, j) ==
    BrailleBase
        + Dot(d, i, j, 1)      + Dot(d, i + 1, j, 2)      + Dot(d, i + 2, j, 4)
        + Dot(d, i, j + 1, 8)  + Dot(d, i + 1, j + 1, 16) + Dot(d, i + 2, j + 1, 32)
        + Dot(d, i + 3, j, 64) + Dot(d, i + 3, j + 1, 128)

\* a mutant of BrailleCols: the columns advance by one, not by two
RECURSIVE BrailleColsStepOne(_, _, _, _, _)
BrailleColsStepOne(d, acc, i, j, end) ==
    IF j >= end THEN [status |-> "ok", out |-> acc]
    ELSE IF ~BlockInBounds(d, i, j) THEN PanicOut
    ELSE BrailleColsStepOne(d, Append(acc, BrailleCodepoint(d, i, j)), i, j + 1, end)

\* for j in (0..end).step_by(2)
RECURSIVE BrailleCols(_, _, _, _, _)
BrailleCols(d, acc, i, j, end) ==
    IF j >= end THEN [status |-> "ok", out |-> acc]
    ELSE IF ~BlockInBounds(d, i, j) THEN PanicOut
    ELSE BrailleCols(d, Append(acc, BrailleCodepoint(d, i, j)), i, j + 2, end)

\* the body of one turn of the outer loop: the glyphs of a line and its '\n'
BrailleLine(d, acc, i, bld) ==
    IF ~InBounds(d, i) THEN PanicOut
    ELSE LET end == USub(Len(At(d, i)), 1, bld)
         IN  IF ~end.ok THEN PanicOut
             ELSE LET line == BrailleCols(d, acc, i, 0, end.val)
                  IN  IF line.status = "panic" THEN PanicOut
                      ELSE [status |-> "ok", out |-> Append(line.out, NewLine)]

\* for i in (0..end).step_by(4)
RECURSIVE BrailleRows(_, _, _, _, _)
BrailleRows(d, acc, i, end, bld) ==
    IF acc.status = "panic" \/ i >= end THEN acc
    ELSE BrailleRows(d, BrailleLine(d, acc.out, i, bld), i + 4, end, bld)

\* TermImage::draw_braille
DrawBrailleOp(d, f, b, bld) ==
    LET end == USub(Len(d), 3, bld)
    IN  IF ~end.ok THEN PanicOut
        ELSE LET r == BrailleRows(d, [status |-> "ok", out |-> ToFg(f) \o ToBg(b)],
                                  0, end.val, bld)
             IN  IF r.status = "panic" THEN PanicOut
                 ELSE [status |-> "ok", out |-> r.out \o ColorDisplay("Reset")]

\* one row of draw_ascii: '#' for a cell > 0, '.' otherwise
AsciiRow(row) == [i \in 1..Len(row) |-> IF row[i] > 0 THEN 35 ELSE 46]

RECURSIVE AsciiRows(_, _, _)
AsciiRows(d, acc, i) ==
    IF i >= Len(d) THEN acc
    ELSE AsciiRows(d, Append(acc \o AsciiRow(At(d, i)), NewLine), i + 1)

\* TermImage::draw_ascii
DrawAsciiOp(d) == [status |-> "ok", out |-> AsciiRows(d, <<>>, 0)]

(***************************************************************************)
(* The matrices handed to TermImage::new.                                  *)
(***************************************************************************)
RECURSIVE MatricesUpTo(_, _)
MatricesUpTo(rowSet, n) ==
    IF n = 0 THEN {<<>>}
    ELSE LET P == MatricesUpTo(rowSet, n - 1)
         IN  P \cup {Append(m, r) : m \in {p \in P : Len(p) = n - 1}, r \in rowSet}

\* rows of unequal lengths
Ragged == MatricesUpTo(SeqsUpTo({0, 1}, MaxRaggedCols), MaxRaggedRows)

\* every block of 4 rows and 2 columns, one braille glyph each
Blocks == {m \in MatricesUpTo({<<0, 0>>, <<0, 1>>, <<1, 0>>, <<1, 1>>}, 4) : Len(m) = 4}

\* R rows of C cells, all of value v except the cell at (r, c), of value w
Marked(R, C, v, w, r, c) ==
    [x \in 1..R |-> [y \in 1..C |-> IF x = r /\ y = c THEN w ELSE v]]

\* dead but for at most one cell of value 2, or alive but for at most one dead cell
Rectangles ==
    {Marked(R, C, vw[1], vw[2], r, c) :
        R \in 0..MaxRows, C \in 0..MaxCols, vw \in {<<0, 2>>, <<1, 0>>},
        r \in 0..MaxRows, c \in 0..MaxCols}

Matrices == Ragged \cup Blocks \cup Rectangles

\* the colours the renderers are called with
Palette == {"White", "Black"}

\* the automaton's variables, idle while the renderer is examined
CaIdle ==
    /\ seed = <<>>
    /\ rule = 0
    /\ rules = EmptyMap
    /\ state = <<>>
    /\ old = <<>>
    /\ steps = 0
    /\ arg = 0
    /\ res = <<>>
    /\ rows = <<>>
    /\ query = NoQuery

\* the state after TermImage::new(m)
InitImage ==
    /\ build \in Builds
    /\ data \in Matrices
    /\ fg = "None"
    /\ bg = "None"
    /\ out = <<>>
    /\ status = "ok"
    /\ op = "new"
    /\ CaIdle

CaUnchanged == UNCHANGED <<build, seed, rule, rules, state, old, steps, arg, res, rows, query>>

\* image.draw_unicode(f, b)
DrawUnicode(f, b) ==
    /\ status = "ok"
    /\ \E r \in {DrawUnicodeOp(data, f, b, build)} :
           /\ status' = r.status
           /\ out' = r.out
    /\ fg' = f
    /\ bg' = b
    /\ op' = "unicode"
    /\ UNCHANGED data
    /\ CaUnchanged

\* image.draw_braille(f, b)
DrawBraille(f, b) ==
    /\ status = "ok"
    /\ \E r \in {DrawBrailleOp(data, f, b, build)} :
           /\ status' = r.status
           /\ out' = r.out
    /\ fg' = f
    /\ bg' = b
    /\ op' = "braille"
    /\ UNCHANGED data
    /\ CaUnchanged

\* image.draw_ascii()
DrawAscii ==
    /\ status = "ok"
    /\ \E r \in {DrawAsciiOp(data)} :
           /\ status' = r.status
           /\ out' = r.out
    /\ fg' = "None"
    /\ bg' = "None"
    /\ op' = "ascii"
    /\ UNCHANGED data
    /\ CaUnchanged

NextImage ==
    \/ \E f \in Palette, b \in Palette : DrawUnicode(f, b)
    \/ \E f \in Palette, b \in Palette : DrawBraille(f, b)
    \/ DrawAscii
SpecImage == InitImage /\ [][NextImage]_vars

(***************************************************************************)
(* The elementary cellular automaton, stated on rows of 0/1 without the    *)
(* table: the reference the automaton's claims are compared against.       *)
(***************************************************************************)
RECURSIVE Pow2(_)
Pow2(k) == IF k = 0 THEN 1 ELSE 2 * Pow2(k - 1)

\* bit p of the rule number r
RuleBit(r, p) == (r \div Pow2(p)) % 2

\* the generation after row under rule r, with circular neighbours
EcaNext(row, r) ==
    LET L == Len(row)
    IN  [i \in 1..L |->
            RuleBit(r, 4 * row[((i + L - 2) % L) + 1] + 2 * row[i] + row[(i % L) + 1])]

RECURSIVE EcaIter(_, _, _)
EcaIter(row, r, k) == IF k = 0 THEN row ELSE EcaIter(EcaNext(row, r), r, k - 1)

\* the seed with every value > 0 as 1 and 0 as 0
Seed01 == [i \in 1..Len(seed) |-> IF seed[i] > 0 THEN 1 ELSE 0]

Patterns == {<<a, b, c>> : a \in {"0", "1"}, b \in {"0", "1"}, c \in {"0", "1"}}

PatternOrder ==
    << <<"0","0","0">>, <<"0","0","1">>, <<"0","1","0">>, <<"0","1","1">>,
       <<"1","0","0">>, <<"1","0","1">>, <<"1","1","0">>, <<"1","1","1">> >>

\* the table's values as 0/1, for the patterns 000..111 in order
TableValues(table) == [p \in 1..8 |-> IF table[PatternOrder[p]] = "One" THEN 1 ELSE 0]

(***************************************************************************)
(* C1: for every rule and every state of length L >= 3, step replaces the  *)
(* state by one of the same length whose cell i is                         *)
(* get(old[(i-1) mod L], old[i], old[(i+1) mod L]), every cell read from   *)
(* the old generation; [0,0,1,0,0] under rule 90 steps to [0,1,0,1,0].     *)
(***************************************************************************)
C1_StepCircular ==
    /\ (op = "step" /\ Len(old) >= 3) =>
          /\ status = "ok"
          /\ Len(state) = Len(old)
          /\ \A i \in 0..Len(old) - 1 :
                At(state, i) =
                  RuleTableGet(rules, At(old, (i + Len(old) - 1) % Len(old)),
                               At(old, i), At(old, (i + 1) % Len(old)))
          /\ RowOf(state) = EcaNext(RowOf(old), rule)
    /\ (op = "step" /\ steps = 1 /\ seed = <<0, 0, 1, 0, 0>> /\ rule = 90) =>
          RowOf(state) = <<0, 1, 0, 1, 0>>

\* a step of rule 90 whose first cell is alive only through the wrap to L-1
C1_Witness ==
    /\ op = "step"
    /\ status = "ok"
    /\ rule = 90
    /\ RowOf(old) = <<0, 0, 0, 0, 1>>
    /\ RowOf(state) = <<1, 0, 0, 1, 0>>

(***************************************************************************)
(* C2: for every rule r the table holds exactly the 8 patterns 000..111,   *)
(* get(b2,b1,b0) never misses and returns Alive iff bit 4*b2+2*b1+b0 of r  *)
(* is set; rule 90 gives 0,1,0,1,1,0,1,0 and rule 110 gives                *)
(* 0,1,1,1,0,1,1,0 for the patterns in order.                              *)
(***************************************************************************)
C2_RuleTableBits ==
    /\ DOMAIN rules = Patterns
    /\ Cardinality(DOMAIN rules) = 8
    /\ query.asked =>
          /\ query.got \in Bits
          /\ status = "ok"
          /\ (query.got = "One") <=>
                (RuleBit(rule, 4 * BitInto(query.b2) + 2 * BitInto(query.b1)
                               + BitInto(query.b0)) = 1)
    /\ rule = 90 => TableValues(rules) = <<0, 1, 0, 1, 1, 0, 1, 0>>
    /\ rule = 110 => TableValues(rules) = <<0, 1, 1, 1, 0, 1, 1, 0>>

\* rule 110 asked for pattern 110: bit 6 of 110 is set
C2_Witness ==
    /\ rule = 110
    /\ query.asked
    /\ query.b2 = "One" /\ query.b1 = "One" /\ query.b0 = "Zero"
    /\ query.got = "One"

(***************************************************************************)
(* C3: on an automaton of length >= 3, run(n) returns exactly n rows of    *)
(* 0/1; row 0 is the state held at the call (the seed with >0 as 1 for a   *)
(* fresh automaton), row k that state after k steps; run(0) returns the    *)
(* empty sequence and leaves the state unchanged.                          *)
(***************************************************************************)
C3_RunRows ==
    (op = "run" /\ Len(old) >= 3) =>
        /\ status = "ok"
        /\ Len(res) = arg
        /\ \A k \in 1..Len(res) :
              /\ res[k] = EcaIter(RowOf(old), rule, k - 1)
              /\ Len(res[k]) = Len(old)
              /\ \A i \in 1..Len(res[k]) : res[k][i] \in {0, 1}
        /\ (arg >= 1 /\ steps = arg) => res[1] = Seed01
        /\ arg = 0 => (res = <<>> /\ state = old)

\* a fresh automaton with a seed value above 1, run for three rows
C3_Witness ==
    /\ op = "run"
    /\ status = "ok"
    /\ arg = 3
    /\ steps = 3
    /\ seed = <<0, 0, 2, 0, 0>>
    /\ rule = 90
    /\ res = << <<0, 0, 1, 0, 0>>, <<0, 1, 0, 1, 0>>, <<1, 0, 0, 0, 1>> >>

(***************************************************************************)
(* C4: repeated runs continue the evolution: the rows of run(a) followed   *)
(* by those of run(b) are the rows of run(a+b) on a fresh automaton of the *)
(* same seed (length >= 3) and rule; after the runs the state is the seed  *)
(* advanced by exactly the number of rows returned, never reset.           *)
(***************************************************************************)
C4_RunContinues ==
    (status = "ok" /\ Len(seed) >= 3) =>
        /\ Len(rows) = steps
        /\ \A k \in 1..Len(rows) : rows[k] = EcaIter(Seed01, rule, k - 1)
        /\ RowOf(state) = EcaIter(Seed01, rule, steps)
        /\ LET fresh == RunOp(RuleTableNew(rule), CaNewState(seed), steps, build)
           IN  fresh.status = "ok" /\ fresh.res = rows

\* a second run of two rows after a first run of one row
C4_Witness ==
    /\ op = "run"
    /\ status = "ok"
    /\ Len(seed) = 5
    /\ Len(res) = 2
    /\ Len(rows) = 3
    /\ rows[1] # rows[2]
    /\ rows[2] # rows[3]
    /\ RowOf(state) # Seed01

(***************************************************************************)
(* C10: for a state of length L with 1 <= L < 3, step completes without    *)
(* aborting and leaves a state of length L whose cell i is                 *)
(* get(old[(i-1) mod L], old[i], old[(i+1) mod L]).                        *)
(***************************************************************************)
C10_StepDegenerate ==
    (op = "step" /\ Len(old) >= 1 /\ Len(old) < 3) =>
        /\ status = "ok"
        /\ Len(state) = Len(old)
        /\ \A i \in 0..Len(old) - 1 :
              At(state, i) =
                RuleTableGet(rules, At(old, (i + Len(old) - 1) % Len(old)),
                             At(old, i), At(old, (i + 1) % Len(old)))

(***************************************************************************)
(* The renderers' output, stated on the matrix without the loops: the      *)
(* reference the renderers' claims are compared against.                   *)
(***************************************************************************)
ResetEscape == <<27, 91, 48, 109>>

NumRows == Len(data)
NumCols == IF Len(data) = 0 THEN 0 ELSE Len(data[1])

\* every row has the length of the first
EqualRows == \A r \in 1..Len(data) : Len(data[r]) = NumCols

\* the weight of the cell at row r, column c (from 1) of a braille block
DotWeight == << <<1, 8>>, <<2, 16>>, <<4, 32>>, <<64, 128>> >>

Weighed(d, a, b, r, c) == IF d[4 * a + r][2 * b + c] > 0 THEN DotWeight[r][c] ELSE 0

\* the glyph of the block of rows 4a..4a+3 and columns 2b..2b+1
ExpGlyph(d, a, b) ==
    10240 + Weighed(d, a, b, 1, 1) + Weighed(d, a, b, 1, 2)
          + Weighed(d, a, b, 2, 1) + Weighed(d, a, b, 2, 2)
          + Weighed(d, a, b, 3, 1) + Weighed(d, a, b, 3, 2)
          + Weighed(d, a, b, 4, 1) + Weighed(d, a, b, 4, 2)

\* lines a, a+1, .. of n glyphs each, every one ended by a line-break
RECURSIVE ExpBrailleBody(_, _, _, _)
ExpBrailleBody(d, a, lines, n) ==
    IF a >= lines THEN <<>>
    ELSE [b \in 1..n |-> ExpGlyph(d, a, b - 1)] \o <<10>>
             \o ExpBrailleBody(d, a + 1, lines, n)

ExpBraille(lines, n) ==
    ToFg(fg) \o ToBg(bg) \o ExpBrailleBody(data, 0, lines, n) \o ResetEscape

\* what draw_unicode emits for a top cell t over a bottom cell b
ExpHalfCell(t, b) ==
    (IF t > 0 THEN ToBg(fg) ELSE ToBg(bg)) \o (IF b > 0 THEN ToFg(fg) ELSE ToFg(bg))
        \o <<9604>> \o ResetEscape

Min(x, y) == IF x <= y THEN x ELSE y

RECURSIVE ExpHalfLine(_, _, _)
ExpHalfLine(top, bottom, i) ==
    IF i > Min(Len(top), Len(bottom)) THEN <<10>>
    ELSE ExpHalfCell(top[i], bottom[i]) \o ExpHalfLine(top, bottom, i + 1)

RECURSIVE ExpHalfBody(_, _, _)
ExpHalfBody(d, k, pairs) ==
    IF k >= pairs THEN <<>>
    ELSE ExpHalfLine(d[2 * k + 1], d[2 * k + 2], 1) \o ExpHalfBody(d, k + 1, pairs)

\* the number of line-breaks in a string
LineCount(str) == Cardinality({i \in 1..Len(str) : str[i] = 10})

IsGlyph(c) == c >= 10240 /\ c <= 10495

\* the braille glyphs of a string, in order
GlyphsOf(str) == SelectSeq(str, IsGlyph)

\* the matrix of tests::test_draw_braille_symbol
TestBlock == << <<1, 0>>, <<1, 1>>, <<0, 0>>, <<0, 1>> >>

(***************************************************************************)
(* C5: for R a multiple of 4 (R >= 4) and rows of one even length C >= 2,  *)
(* draw_braille(fg, bg) is fg's foreground escape and bg's background      *)
(* escape once, then R/4 lines of C/2 glyphs each ended by a line-break,   *)
(* then one reset escape; a glyph is 0x2800 plus 0x01,0x08,0x02,0x10,0x04, *)
(* 0x20,0x40,0x80 for the cells of its block that are > 0.                 *)
(***************************************************************************)
C5_BrailleFullBlocks ==
    (/\ op = "braille"
     /\ NumRows >= 4 /\ NumRows % 4 = 0
     /\ EqualRows
     /\ NumCols >= 2 /\ NumCols % 2 = 0) =>
        /\ status = "ok"
        /\ out = ExpBraille(NumRows \div 4, NumCols \div 2)
        /\ Len(GlyphsOf(out)) = (NumRows \div 4) * (NumCols \div 2)
        /\ LineCount(out) = NumRows \div 4

\* two lines of two glyphs, the only live cell the last one: dot 8 of the last glyph
C5_Witness ==
    /\ op = "braille"
    /\ status = "ok"
    /\ fg = "White" /\ bg = "Black"
    /\ data = Marked(8, 4, 0, 2, 8, 4)
    /\ out = <<27, 91, 51, 55, 109, 27, 91, 52, 48, 109,
               10240, 10240, 10, 10240, 10368, 10, 27, 91, 48, 109>>

(***************************************************************************)
(* C6: for a matrix of at least 2 rows, draw_unicode(fg, bg) emits, for    *)
(* each row pair (2k, 2k+1) and each column below the shorter row's        *)
(* length: the background escape of fg if the top cell is > 0 else of bg,  *)
(* the foreground escape of fg if the bottom cell is > 0 else of bg,       *)
(* U+2584 and ESC[0m; each pair's line ends with one line-break and        *)
(* nothing follows the last.                                               *)
(***************************************************************************)
C6_HalfBlockCells ==
    (op = "unicode" /\ NumRows >= 2) =>
        /\ status = "ok"
        /\ out = ExpHalfBody(data, 0, NumRows \div 2)
        /\ out # <<>> /\ out[Len(out)] = 10

\* a top row longer than the bottom row: one cell, top alive over bottom dead
C6_Witness ==
    /\ op = "unicode"
    /\ status = "ok"
    /\ fg = "White" /\ bg = "Black"
    /\ data = << <<1, 0>>, <<0>> >>
    /\ out = <<27, 91, 52, 55, 109, 27, 91, 51, 48, 109, 9604, 27, 91, 48, 109, 10>>

(***************************************************************************)
(* C7: for every matrix of R >= 0 rows draw_unicode returns normally with  *)
(* exactly floor(R/2) lines; an unpaired last row is dropped, and with     *)
(* fewer than 2 rows the output is the empty string.                       *)
(***************************************************************************)
C7_HalfBlockAnyRows ==
    op = "unicode" =>
        /\ status = "ok"
        /\ LineCount(out) = NumRows \div 2
        /\ NumRows < 2 => out = <<>>

(***************************************************************************)
(* C8: for every matrix of R >= 0 rows of one length C >= 1 draw_braille   *)
(* returns normally with exactly floor(R/4) lines of floor(C/2) glyphs,    *)
(* an incomplete chunk left out; with R < 4 the output is the fg/bg escape *)
(* pair followed by the reset escape.                                      *)
(***************************************************************************)
C8_BrailleAnyRows ==
    (op = "braille" /\ EqualRows /\ (NumRows = 0 \/ NumCols >= 1)) =>
        /\ status = "ok"
        /\ out = ExpBraille(NumRows \div 4, NumCols \div 2)
        /\ NumRows < 4 => out = ToFg(fg) \o ToBg(bg) \o ResetEscape

(***************************************************************************)
(* C9 as stated: the braille render of [[1,0],[1,1],[0,0],[0,1]] with      *)
(* White over Black is one glyph of codepoint 0x289B, after one fg/bg      *)
(* escape pair and before exactly one reset.                               *)
(***************************************************************************)
C9_TestGlyph289B ==
    (op = "braille" /\ data = TestBlock /\ fg = "White" /\ bg = "Black") =>
        /\ status = "ok"
        /\ GlyphsOf(out) = <<10395>>
        /\ SubSeq(out, 1, 10) = ToFg("White") \o ToBg("Black")
        /\ SubSeq(out, Len(out) - 3, Len(out)) = ResetEscape
        /\ Cardinality({i \in 1..Len(out) : out[i] = 27}) = 3

(***************************************************************************)
(* C9 amended: the braille render of [[1,0],[1,1],[0,0],[0,1]] with White  *)
(* over Black is one glyph of codepoint 0x2893 (dots 1, 2, 5 and 8:        *)
(* 0x01+0x02+0x10+0x80), after one fg/bg escape pair and before exactly    *)
(* one reset.                                                              *)
(***************************************************************************)
C9_TestGlyph2893 ==
    (op = "braille" /\ data = TestBlock /\ fg = "White" /\ bg = "Black") =>
        /\ status = "ok"
        /\ GlyphsOf(out) = <<10387>>
        /\ SubSeq(out, 1, 10) = ToFg("White") \o ToBg("Black")
        /\ SubSeq(out, Len(out) - 3, Len(out)) = ResetEscape
        /\ Cardinality({i \in 1..Len(out) : out[i] = 27}) = 3
        /\ out = <<27, 91, 51, 55, 109, 27, 91, 52, 48, 109, 10387, 10, 27, 91, 48, 109>>

\* the test's matrix rendered White over Black
C9_Witness ==
    /\ op = "braille"
    /\ status = "ok"
    /\ data = TestBlock
    /\ fg = "White" /\ bg = "Black"
    /\ Len(GlyphsOf(out)) = 1

====
